---- MODULE Spec2Model ----
(***************************************************************************)
(* Model of the MCP server supervisor of app/core/mcp_manager.py:          *)
(* MCPServerManager (start_server, stop_server, start_all_enabled,         *)
(* stop_all, _health_check_loop, start_health_check), the process-wide     *)
(* registry _all_started_processes with _cleanup_all_processes, the        *)
(* SIGINT/SIGTERM handler of _register_cleanup and shutdown_mcp_servers.   *)
(*                                                                         *)
(* Scheduling: one asyncio event loop.  A coroutine runs without           *)
(* interruption from one await to the next, so every action below is the   *)
(* code between two suspension points.  A Python signal handler runs in    *)
(* the main thread between two bytecodes: it may interrupt a coroutine     *)
(* between subprocess.Popen and the registry append, and it may interrupt  *)
(* a running _cleanup_all_processes pass.                                  *)
(*                                                                         *)
(* Environment: a POSIX host (os.name is not 'nt'); a process may exit at  *)
(* any time; a health probe may answer or not at any time (another process *)
(* may hold the port, a live process may not listen); SIGTERM may or may   *)
(* not end a process within the wait that follows it; SIGKILL ends it at   *)
(* once; the configuration file and the scripts on disk do not change      *)
(* during a run; pids are not reused.                                      *)
(***************************************************************************)
EXTENDS Integers, Sequences, FiniteSets, TLC

\* ------------------------------------------------------------------ bounds
MaxProcs   == 2   \* processes the host can spawn in a run; Popen raises beyond
MaxReloads == 2   \* calls of start_all_enabled (each replaces the table)
MaxPolls   == 2   \* health polls of one start (the code's max_wait * 2 is 20)
MaxSignals == 1   \* SIGINT/SIGTERM deliveries in a run
MaxManagers == 2  \* MCPServerManager objects get_mcp_manager makes in a run
MaxOut     == 1   \* bytes of captured output of an exited process

\* --------------------------------------------------------------- constants
ErrTail == 500    \* error_msg keeps the last 500 characters
DefaultPort == 8080  \* the port of a server whose url names none

None   == "None"  \* Python's None in a string-valued field
NoProc == 0       \* Python's None in server.process

\* ------------------------------------------------------------ configuration
\* The names callers pass: those of SERVER_SCRIPTS.  A name is unknown to the
\* manager until a reload has read an entry for it from the configuration file.
ServerNames == {"elasticsearch", "test_tool_server"}

\* config.url of an entry, as urlparse splits it: the text, its hostname ("" if
\* it has none) and its port (0 if it names none).  NoUrl is the missing url "".
Url(text, hostname, port) == [text |-> text, hostname |-> hostname, port |-> port]
NoUrl == Url("", "", 0)
Url9001 == Url("http://localhost:9001", "localhost", 9001)
UrlNoPort == Url("http://es-bridge", "es-bridge", 0)

\* An entry of mcp_servers in config.yaml: the enabled flag, whether
\* parse_mcp_servers resolves a script for it (a SERVER_SCRIPTS entry whose file
\* exists), and config.url.  A configuration file is the sequence of its
\* entries, in file order.
Entry(n, enabled, script, url) ==
  [name |-> n, enabled |-> enabled, script |-> script, url |-> url]
OneServer  == <<Entry("elasticsearch", TRUE, TRUE, Url9001)>>
TwoServers == <<Entry("elasticsearch", TRUE, TRUE, Url9001),
                Entry("test_tool_server", TRUE, TRUE, NoUrl)>>
NoScript   == <<Entry("elasticsearch", TRUE, TRUE, UrlNoPort),
                Entry("test_tool_server", TRUE, FALSE, Url9001)>>
Disabled   == <<Entry("elasticsearch", TRUE, TRUE, Url9001),
                Entry("test_tool_server", FALSE, TRUE, NoUrl)>>

\* The runs the model covers: a configuration file, who acts besides the first
\* caller "t1" (a second concurrent caller "t2", the health task "mon", "exit":
\* signals and the interpreter's exit, "sync": calls of
\* shutdown_mcp_servers_sync, "fs": the directory of the scripts may stop being
\* searchable, "again": get_mcp_manager is called again after a shutdown), and
\* how often a manager's table is reloaded.  fs is "ok" while
\* Path.exists() answers and "denied" once it raises PermissionError.
Scenario(cfg, actors, reloads) ==
  [cfg |-> cfg, actors |-> actors, reloads |-> reloads, fs |-> "ok"]
Scenarios ==
  { Scenario(OneServer, {"t2"}, 1),
    Scenario(OneServer, {"mon"}, MaxReloads),
    Scenario(OneServer, {"mon", "sync"}, 1),
    Scenario(OneServer, {"exit"}, MaxReloads),
    Scenario(OneServer, {"again"}, 1),
    Scenario(TwoServers, {}, MaxReloads),
    Scenario(TwoServers, {"mon", "fs"}, 1),
    Scenario(NoScript, {}, MaxReloads),
    Scenario(Disabled, {}, MaxReloads) }

Pids == 1..MaxProcs
Gens == 1..MaxReloads
Callers == {"t1", "t2"}       \* concurrent callers of the supervisor's API
Tasks == Callers \cup {"mon"} \* "mon" is the _health_check_task

VARIABLES
  scenario,       \* the configuration file of this run, and who acts in it
  cur,            \* generation of self.servers: 0 is the {} of __init__
  tables,         \* tables[g][n]: the MCPServerInfo objects made by the g-th parse
  procs,          \* procs[p]: OS state of the p-th spawned process
  registry,       \* _all_started_processes
  tasks,          \* position and locals of every coroutine
  shutdownEvent,  \* self._shutdown_event.is_set()
  globalManager,  \* _global_manager is not None
  frames,         \* stack of running _cleanup_all_processes passes
  phase,          \* "run", "atexit" (exit hooks running), "halted"
  signals,        \* signals delivered so far
  swept,          \* pids removed from the registry by clear()
  host            \* the host process: MCPServerManager objects made so far, and
                  \* how often the exit hook and the signal handlers were registered

vars == <<scenario, cur, tables, procs, registry, tasks, shutdownEvent,
          globalManager, frames, phase, signals, swept, host>>

\* ------------------------------------------------------------------ objects
\* A parse that gives every server the default port.
C13_PortIgnored(url) == DefaultPort

\* Lines 105-111: host and port of a url.
HostOf(url) == IF url.text # "" /\ url.hostname # "" THEN url.hostname ELSE "localhost"
PortOf(url) == IF url.text # "" /\ url.port # 0 THEN url.port ELSE DefaultPort

\* A parse whose fresh entries start as "running".
C40_FreshEntryRunning(c) ==
  [enabled |-> c.enabled, script_path |-> c.script,
   url |-> c.url.text, host |-> HostOf(c.url), port |-> PortOf(c.url),
   process |-> NoProc, status |-> "running", error |-> None]

\* MCPServerInfo as parse_mcp_servers builds it: status "stopped", no process, no error.
MCPServerInfo(c) ==
  [enabled |-> c.enabled, script_path |-> c.script,
   url |-> c.url.text, host |-> HostOf(c.url), port |-> PortOf(c.url),
   process |-> NoProc, status |-> "stopped", error |-> None]

\* A table that no parse has built yet, or that nothing refers to any more.
NoTable == [n \in ServerNames |-> MCPServerInfo(Entry(n, FALSE, FALSE, NoUrl))]

\* The names of a configuration file, in file order, and as a set.
RECURSIVE KeysOf(_)
KeysOf(cfg) == IF cfg = <<>> THEN <<>> ELSE <<Head(cfg).name>> \o KeysOf(Tail(cfg))
Configured(cfg) == {cfg[k].name : k \in 1..Len(cfg)}
EntryOf(cfg, n) == cfg[CHOOSE k \in 1..Len(cfg) : cfg[k].name = n]

\* Lines 94-132: one MCPServerInfo per entry of the file.
parse_mcp_servers(cfg) ==
  [n \in ServerNames |-> IF n \in Configured(cfg) THEN MCPServerInfo(EntryOf(cfg, n))
                         ELSE NoTable[n]]

\* name in self.servers, for the table of generation g
Known(g, n) == g > 0 /\ n \in Configured(scenario.cfg)

\* script_path.exists() at the time of a start: the file parse resolved is there.
ScriptExists(n) == EntryOf(scenario.cfg, n).script

\* A coroutine's locals.  gen is the generation of the object `server` is bound to;
\* iter is the generation of the dict the monitor's for loop iterates; answer is
\* what the last _check_health awaited by the start_server in progress returned.
IdleTask ==
  [op |-> "idle", pc |-> "idle", name |-> "", gen |-> 0, iter |-> 0, i |-> 0,
   todo |-> <<>>, res |-> {}, ret |-> None, via |-> "", st0 |-> "", answer |-> FALSE,
   cancel |-> FALSE]

NoTask == [IdleTask EXCEPT !.op = "none", !.pc = "none"]

\* ---------------------------------------------------------------- processes
Unborn == [st |-> "unborn", name |-> ""]

Alive(pr, p) == pr[p].st = "alive"

\* Popen.poll(): None while the process runs; reaps it once it has exited.
Poll(pr, p) == IF pr[p].st = "zombie" THEN [pr EXCEPT ![p].st = "reaped"] ELSE pr

\* The next pid, 0 when the host can spawn no more.
NextPid(pr) ==
  IF \E p \in Pids : pr[p].st = "unborn"
  THEN CHOOSE p \in Pids : pr[p].st = "unborn" /\ \A q \in Pids : q < p => pr[q].st # "unborn"
  ELSE 0

\* ----------------------------------------------------------- captured output
Bytes == {65, 255}   \* "A", and a byte that is valid in no UTF-8 sequence
RECURSIVE SeqsUpTo(_)
SeqsUpTo(k) ==
  IF k = 0 THEN {<<>>}
  ELSE SeqsUpTo(k - 1) \cup {Append(s, b) : s \in {q \in SeqsUpTo(k - 1) : Len(q) = k - 1}, b \in Bytes}
Outputs == SeqsUpTo(MaxOut)

\* bytes.decode('utf-8', errors='ignore'): undecodable bytes are dropped.
RECURSIVE Decode(_)
Decode(bs) ==
  IF bs = <<>> THEN ""
  ELSE (IF Head(bs) = 65 THEN "A" ELSE "") \o Decode(Tail(bs))

\* s[-500:]
Tail500(s) == IF Len(s) <= ErrTail THEN s ELSE SubSeq(s, Len(s) - ErrTail + 1, Len(s))

\* error_msg of line 229: the decoded tail if stdout is a non-empty bytes object.
ErrorMsg(stdout) == IF stdout # <<>> THEN Tail500(Decode(stdout)) ELSE "unknown error"

\* -------------------------------------------------------------------- world
\* The heap a synchronous stretch of code reads and writes: the tables, the
\* processes and the registry.  r.tk is the running coroutine's locals.
W(tb, pr, rg) == [tb |-> tb, pr |-> pr, rg |-> rg]

SetStatus(w, g, n, st) == [w EXCEPT !.tb[g][n].status = st]
SetError(w, g, n, e)   == [w EXCEPT !.tb[g][n].error = e]
SetProcess(w, g, n, p) == [w EXCEPT !.tb[g][n].process = p]

\* The value a top-level call hands back to its caller.
Returned(tk, ret, via) ==
  [IdleTask EXCEPT !.op = tk.op, !.pc = "ret", !.name = tk.name, !.res = tk.res,
                   !.ret = ret, !.via = via, !.st0 = tk.st0, !.answer = tk.answer]

\* ------------------------------------------------------------- start_server
\* A start_server that answers True for a name it does not know.
C7_UnknownNameAccepted(w) == [w |-> w, k |-> "ret", ret |-> "True", via |-> "unknown"]

\* Lines 169-171: the name is no key of self.servers.
UnknownName(w) == [w |-> w, k |-> "ret", ret |-> "False", via |-> "unknown"]

\* Line 186 with the test of poll() inverted (is not None).
C8_PollTestInverted(pr, server) == server.process # NoProc /\ ~Alive(pr, server.process)

\* Line 186: server.process and server.process.poll() is None
AlreadyRunning(pr, server) == server.process # NoProc /\ Alive(pr, server.process)

\* Lines 169-191: from the call to the first await (the pre-spawn probe).
\* k = "ret": the call returned; k = "await": it is suspended in _check_health;
\* k = "raise": script_path.exists() (line 179, outside any try) raised.
StartEntry(w, g, n) ==
  IF ~Known(g, n)
  THEN UnknownName(w)
  ELSE LET server == w.tb[g][n] IN
    IF ~server.enabled
    THEN [w |-> w, k |-> "ret", ret |-> "False", via |-> "disabled"]
    ELSE IF server.script_path /\ scenario.fs = "denied"
    THEN [w |-> w, k |-> "raise", ret |-> None, via |-> "PermissionError"]
    ELSE IF ~server.script_path \/ ~ScriptExists(n)
    THEN [w |-> SetError(SetStatus(w, g, n, "failed"), g, n, "script file missing"),
          k |-> "ret", ret |-> "False", via |-> "noscript"]
    ELSE IF AlreadyRunning(w.pr, server)
    THEN [w |-> w, k |-> "ret", ret |-> "True", via |-> "live"]
    ELSE [w |-> [w EXCEPT !.pr = IF server.process # NoProc THEN Poll(@, server.process) ELSE @],
          k |-> "await", ret |-> None, via |-> ""]

RECURSIVE RunStartAll(_, _, _), RunMonitor(_, _, _)

\* start_server returned ret to the coroutine tk; tk goes on in its caller.
\* g is the generation of self.servers now.
Finish(w, g, tk, ret, via) ==
  LET back == [tk EXCEPT !.pc = "", !.name = "", !.gen = 0, !.i = 0] IN
  CASE tk.op = "start" -> [w |-> w, tk |-> Returned(tk, ret, via)]
    [] tk.op = "startAll" ->
         RunStartAll(w, g, [back EXCEPT !.res = @ \cup {<<Head(tk.todo), ret>>},
                                        !.todo = Tail(@)])
    [] tk.op = "monitor" ->
         RunMonitor(w, g, [back EXCEPT !.res = @ \cup {<<Head(tk.todo), ret>>},
                                       !.todo = Tail(@)])

\* start_server raised in the coroutine tk.  No caller has a handler: the call
\* ends with the exception.  In the health task it reaches line 386, the one
\* handler around the whole for loop: the error is logged, what is left of the
\* cycle is dropped and the while test and the next sleep follow.
Raised(w, g, tk, via) ==
  IF tk.op = "monitor"
  THEN RunMonitor(w, g, [tk EXCEPT !.pc = "", !.name = "", !.gen = 0, !.i = 0,
                                   !.res = @ \cup {<<Head(tk.todo), "raise">>},
                                   !.todo = <<>>])
  ELSE [w |-> w, tk |-> Returned(tk, "raise", via)]

\* await self.start_server(n), called by coroutine tk.
CallStart(w, g, tk, n) ==
  LET e == StartEntry(w, g, n) IN
  IF e.k = "await"
  THEN [w |-> e.w, tk |-> [tk EXCEPT !.pc = "s_probe0", !.name = n, !.gen = g, !.i = 0,
                                      !.answer = FALSE]]
  ELSE IF e.k = "raise"
  THEN Raised(e.w, g, [tk EXCEPT !.name = n, !.answer = FALSE], e.via)
  ELSE Finish(e.w, g, [tk EXCEPT !.name = n, !.answer = FALSE], e.ret, e.via)

\* The exception text of a failed Popen, and of server.process.poll() on None.
LaunchErrorMsg == "launch error"
AttributeErrorMsg == "NoneType has no attribute poll"

\* A port that answers without the status being set.
C11_StatusNotSet(w, g, n) == w

\* Lines 191-194: the port answers already; the server counts as running.
PortAnswers(w, g, n) == SetStatus(w, g, n, "running")

\* Lines 191-218: the pre-spawn probe answered h; spawned says whether Popen
\* succeeds.  After Popen the coroutine stands before the registry append.
AfterProbe0(w, g, tk, h, spawned) ==
  LET n == tk.name
      p == NextPid(w.pr) IN
  IF h
  THEN Finish(PortAnswers(w, tk.gen, n), g, tk, "True", "port")
  ELSE LET w1 == SetStatus(w, tk.gen, n, "starting") IN
    IF spawned /\ p # 0
    THEN [w |-> [SetProcess(w1, tk.gen, n, p) EXCEPT !.pr[p] = [st |-> "alive", name |-> n]],
          tk |-> [tk EXCEPT !.pc = "s_spawned"]]
    ELSE Finish(SetError(SetStatus(w1, tk.gen, n, "failed"), tk.gen, n, LaunchErrorMsg),
                g, tk, "False", "exception")

\* Line 218: _all_started_processes.append(server.process); then the first sleep.
Register(w, tk) ==
  [w |-> [w EXCEPT !.rg = Append(@, w.tb[tk.gen][tk.name].process)],
   tk |-> [tk EXCEPT !.pc = "s_sleep", !.i = 0]]

\* Lines 223-233: the sleep is over; stdout is what communicate() reads if the
\* process has exited.
AfterSleep(w, g, tk, stdout) ==
  LET n == tk.name
      p == w.tb[tk.gen][n].process IN
  IF p = NoProc
  THEN Finish(SetError(SetStatus(w, tk.gen, n, "failed"), tk.gen, n, AttributeErrorMsg),
              g, tk, "False", "exception")
  ELSE IF ~Alive(w.pr, p)
  THEN Finish(SetError(SetStatus([w EXCEPT !.pr = Poll(@, p)], tk.gen, n, "failed"),
                       tk.gen, n, ErrorMsg(stdout)),
              g, tk, "False", "exited")
  ELSE [w |-> w, tk |-> [tk EXCEPT !.pc = "s_probe"]]

\* A poll loop that gives the server up when no poll was answered.
C25_TimeoutFails(w, g, n) == SetStatus(w, g, n, "failed")

\* Lines 242-245: no poll was answered; the server counts as running.
HealthTimeout(w, g, n) == SetStatus(w, g, n, "running")

\* Lines 236-245: the poll's probe answered h.
AfterProbe(w, g, tk, h) ==
  LET n == tk.name IN
  IF h
  THEN Finish(SetError(SetStatus(w, tk.gen, n, "running"), tk.gen, n, None),
              g, tk, "True", "healthy")
  ELSE IF tk.i + 1 < MaxPolls
  THEN [w |-> w, tk |-> [tk EXCEPT !.pc = "s_sleep", !.i = @ + 1]]
  ELSE Finish(HealthTimeout(w, tk.gen, n), g, tk, "True", "timeout")

\* -------------------------------------------------------------- stop_server
\* A stop that lets a process live on which SIGTERM does not end.
C19_NoEscalation(st, graceful) ==
  IF st = "zombie" \/ graceful THEN [st |-> "reaped", sent |-> "SIGTERM"]
  ELSE [st |-> st, sent |-> "SIGTERM"]

\* Lines 277-290: SIGTERM to the group of a process that is not reaped yet,
\* then wait(5), which reaps it if it has ended; on TimeoutExpired SIGKILL to
\* the group.  st is the process's state before, sent the signals sent.
\* graceful: the process ends within the wait that follows SIGTERM.
Terminate(st, graceful) ==
  IF st = "zombie" \/ graceful THEN [st |-> "reaped", sent |-> "SIGTERM"]
  ELSE [st |-> "zombie", sent |-> "SIGTERM,SIGKILL"]

\* getpgid raises ProcessLookupError for a process that was already reaped.
stop_server(w, g, n, graceful) ==
  IF ~Known(g, n) THEN [w |-> w, ret |-> "False", sent |-> ""]
  ELSE LET p == w.tb[g][n].process IN
    IF p = NoProc THEN [w |-> SetStatus(w, g, n, "stopped"), ret |-> "True", sent |-> ""]
    ELSE IF w.pr[p].st = "reaped" THEN [w |-> w, ret |-> "False", sent |-> ""]
    ELSE LET x == Terminate(w.pr[p].st, graceful) IN
         [w |-> [SetStatus(SetProcess(w, g, n, NoProc), g, n, "stopped")
                   EXCEPT !.pr[p].st = x.st],
          ret |-> "True", sent |-> x.sent]

\* for name in list(self.servers.keys()): await self.stop_server(name)
RECURSIVE StopEach(_, _, _, _)
StopEach(w, g, names, graceful) ==
  IF names = <<>> THEN w
  ELSE StopEach(stop_server(w, g, Head(names), graceful[Head(names)]).w, g,
                Tail(names), graceful)

\* list(self.servers.keys()) / self.servers.items() of the table of generation g
Keys(g) == IF g > 0 THEN KeysOf(scenario.cfg) ELSE <<>>

\* ------------------------------------------------ shutdown_mcp_servers_sync
\* Lines 562-574: one server of the loop.  poll() reaps a process that has
\* exited; a live one gets SIGTERM and, if it does not end within the 3 s wait
\* (TimeoutExpired), SIGKILL.  The server's handle and status stay as they are.
SyncStop(w, g, n, graceful) ==
  LET p == w.tb[g][n].process IN
  IF p = NoProc THEN w
  ELSE IF ~Alive(w.pr, p) THEN [w EXCEPT !.pr = Poll(@, p)]
  ELSE [w EXCEPT !.pr[p].st = IF graceful THEN "reaped" ELSE "zombie"]

\* for name, server in _global_manager.servers.items(): ...
RECURSIVE SyncStopEach(_, _, _, _)
SyncStopEach(w, g, names, graceful) ==
  IF names = <<>> THEN w
  ELSE SyncStopEach(SyncStop(w, g, Head(names), graceful[Head(names)]), g,
                    Tail(names), graceful)

\* -------------------------------------------------------- start_all_enabled
\* Lines 332-339: the loop over enabled_servers, up to the next suspension.
RunStartAll(w, g, tk) ==
  IF tk.todo = <<>>
  THEN [w |-> w, tk |-> Returned([tk EXCEPT !.iter = 0], "dict", "")]
  ELSE LET n == Head(tk.todo) IN
    IF w.tb[tk.iter][n].script_path
    THEN CallStart(w, g, tk, n)
    ELSE RunStartAll(w, g, [tk EXCEPT !.res = @ \cup {<<n, "False">>}, !.todo = Tail(@)])

\* An enabled_servers that holds every server of the table.
C14_AllServers(names, tbl) == names

\* enabled_servers = [s for s in self.servers.values() if s.enabled]
RECURSIVE EnabledServers(_, _)
EnabledServers(names, tbl) ==
  IF names = <<>> THEN <<>>
  ELSE (IF tbl[Head(names)].enabled THEN <<Head(names)>> ELSE <<>>)
       \o EnabledServers(Tail(names), tbl)

\* --------------------------------------------------------------- get_status
\* A get_status that leaves the error out of a server's record.
C20_ErrorDropped(tbl, names) ==
  {<<n, [enabled |-> tbl[n].enabled, status |-> tbl[n].status, port |-> tbl[n].port,
         url |-> tbl[n].url, error |-> None, has_script |-> tbl[n].script_path]>> :
     n \in names}

\* Lines 398-408: the dict get_status returns, as the set of its items; tbl is
\* self.servers and names its keys.
get_status(tbl, names) ==
  {<<n, [enabled |-> tbl[n].enabled, status |-> tbl[n].status, port |-> tbl[n].port,
         url |-> tbl[n].url, error |-> tbl[n].error, has_script |-> tbl[n].script_path]>> :
     n \in names}

\* ------------------------------------------------------- _health_check_loop
MonitorTask(pc) == [IdleTask EXCEPT !.op = "monitor", !.pc = pc]

\* Lines 363-369: the for loop of one cycle up to the next probe; at its end the
\* while test and the next sleep.  During the sleep res keeps what the restarts
\* of the cycle returned.
RunMonitor(w, g, tk) ==
  IF tk.todo = <<>>
  THEN [w |-> w, tk |-> IF shutdownEvent THEN MonitorTask("done")
                        ELSE [MonitorTask("m_sleep") EXCEPT !.res = tk.res,
                                                            !.answer = tk.answer,
                                                            !.via = tk.via]]
  ELSE LET n == Head(tk.todo)
           server == w.tb[tk.iter][n] IN
    IF ~server.enabled \/ server.status = "stopped"
    THEN RunMonitor(w, g, [tk EXCEPT !.todo = Tail(@)])
    ELSE [w |-> w, tk |-> [tk EXCEPT !.pc = "m_probe", !.name = n]]

\* A monitor that leaves the status of a server that answers as it is.
C28_NoSelfHeal(w, g, n) == w

\* Lines 372-375: the server answers; if its status is not "running" it is set.
SelfHeal(w, g, n) ==
  IF w.tb[g][n].status # "running" THEN SetStatus(w, g, n, "running") ELSE w

\* Lines 371-382: the monitor's probe of tk.name answered h (kept in answer);
\* via keeps that line 375 has logged the server as recovered.
AfterMonitorProbe(w, g, tk, h) ==
  LET n == tk.name
      server == w.tb[tk.iter][n]
      next == [tk EXCEPT !.pc = "", !.name = "", !.todo = Tail(@), !.answer = h] IN
  IF h
  THEN RunMonitor(SelfHeal(w, tk.iter, n), g,
                  [next EXCEPT !.via = IF server.status # "running" THEN "recovered" ELSE @])
  ELSE IF server.status = "running"
  THEN CallStart(SetStatus(w, tk.iter, n, "failed"), g, tk, n)
  ELSE RunMonitor(w, g, next)

\* --------------------------------------------------- _cleanup_all_processes
\* A pass that walks only the processes the current table holds a handle of.
C22_CurrentHandlesOnly(src, rg) ==
  [src |-> src,
   snap |-> SelectSeq(rg, LAMBDA p : cur > 0 /\ \E n \in ServerNames :
                                      tables[cur][n].process = p),
   i |-> 1, pc |-> "check", sent |-> <<>>]

\* One running pass: the snapshot list(_all_started_processes), the index of the
\* entry it handles, where it stands for it and what it has sent to it.  src
\* is who called it: "shutdown" (shutdown_mcp_servers), "signal"
\* (signal_handler), "atexit".
NewFrame(src, rg) == [src |-> src, snap |-> rg, i |-> 1, pc |-> "check", sent |-> <<>>]

\* A pass that goes to its clear() after any entry.
C34_SkipRest(f) == [f EXCEPT !.pc = "clear", !.sent = <<>>]

\* The pass moves to its next entry, or to the clear() after the loop.
NextEntry(f) ==
  IF f.i < Len(f.snap) THEN [f EXCEPT !.i = @ + 1, !.pc = "check", !.sent = <<>>]
  ELSE [f EXCEPT !.pc = "clear", !.sent = <<>>]

\* A pass that kills at every tier.
C33_KillAtOnce(pc) == "SIGKILL"

\* What a pass sends to an entry that is still alive: killpg(pgid, SIGTERM)
\* (line 436), then process.terminate() (line 444), then killpg(pgid, SIGKILL)
\* and process.kill() (lines 453-458).
Tier(pc) ==
  CASE pc = "check" -> "SIGTERM"
    [] pc = "sleep1" -> "terminate"
    [] OTHER -> "SIGKILL"

\* Lines 429-473 for the entry p of frame f, from one blocking call to the next;
\* dies: the SIGTERM just sent ends the process before the sleep is over.
\*   check  : poll(); if alive SIGTERM to the group, then time.sleep (line 438)
\*   sleep1 : poll(); if alive process.terminate(), then time.sleep (line 446)
\*   sleep2 : poll(); if alive SIGKILL to the group and process.kill()
\*   wait   : process.wait(timeout=1)
PassEntry(pr, f, dies) ==
  LET p   == f.snap[f.i]
      pr1 == Poll(pr, p)
      sig == IF dies \/ Tier(f.pc) = "SIGKILL" THEN [pr1 EXCEPT ![p].st = "zombie"] ELSE pr1
      f1  == [f EXCEPT !.sent = Append(@, Tier(f.pc))] IN
  CASE f.pc = "check" ->
         IF Alive(pr, p) THEN [pr |-> sig, f |-> [f1 EXCEPT !.pc = "sleep1"]]
         ELSE [pr |-> pr1, f |-> NextEntry(f)]
    [] f.pc = "sleep1" ->
         IF Alive(pr, p) THEN [pr |-> sig, f |-> [f1 EXCEPT !.pc = "sleep2"]]
         ELSE [pr |-> pr1, f |-> [f EXCEPT !.pc = "wait"]]
    [] f.pc = "sleep2" ->
         IF Alive(pr, p) THEN [pr |-> sig, f |-> [f1 EXCEPT !.pc = "wait"]]
         ELSE [pr |-> pr1, f |-> [f EXCEPT !.pc = "wait"]]
    [] f.pc = "wait" -> [pr |-> pr1, f |-> NextEntry(f)]

\* A pass that ends without line 478.
C4_RegistryNotCleared(rg) == rg

\* Line 478: _all_started_processes.clear()
ClearRegistry(rg) == <<>>

Elems(sq) == {sq[k] : k \in 1..Len(sq)}

\* The interpreter exits from the run phase: the atexit hook calls
\* _cleanup_all_processes, which returns at once on an empty registry.
ExitNow(rg) ==
  IF rg = <<>> THEN [frames |-> <<>>, phase |-> "halted"]
  ELSE [frames |-> <<NewFrame("atexit", rg)>>, phase |-> "atexit"]

\* sys.exit(0) of signal_handler: SystemExit is raised where the handler
\* interrupted.  fs are the passes it interrupted, innermost last.  The bare
\* except of lines 447 and 472 swallows it; elsewhere it ends the pass and goes
\* on to that pass's caller.
RECURSIVE RaiseExit(_, _, _)
RaiseExit(fs, rg, ph) ==
  IF fs = <<>> THEN ExitNow(rg)
  ELSE LET top  == fs[Len(fs)]
           rest == SubSeq(fs, 1, Len(fs) - 1) IN
    CASE top.pc = "sleep2" -> [frames |-> fs, phase |-> ph]
      [] top.pc = "wait"   -> [frames |-> Append(rest, NextEntry(top)), phase |-> ph]
      [] OTHER ->
           IF top.src = "signal" THEN RaiseExit(rest, rg, ph)
           ELSE IF top.src = "atexit" THEN [frames |-> <<>>, phase |-> "halted"]
           ELSE ExitNow(rg)

\* ------------------------------------------------------------------ actions
Here == W(tables, procs, registry)

Ref(tks, g) == \E t \in Tasks : tks[t].gen = g \/ tks[t].iter = g

\* Tables that are replaced and that no coroutine refers to are garbage.
Collect(tb, tks, c) ==
  [g \in Gens |-> IF g < c /\ ~Ref(tks, g) THEN NoTable ELSE tb[g]]

\* The coroutine t may take a step: the loop runs, no cleanup pass blocks the
\* thread, and no other coroutine stands between Popen and the append.  The
\* runs with an unreadable scripts directory are those in which the callers
\* make their calls before it becomes unreadable and the health task is
\* started after.
CanRun(t) ==
  /\ t = "t1" \/ t \in scenario.actors
  /\ "fs" \in scenario.actors => scenario.fs = (IF t \in Callers THEN "ok" ELSE "denied")
  /\ phase = "run"
  /\ frames = <<>>
  /\ \A u \in Tasks \ {t} : tasks[u].pc # "s_spawned"

\* The step of coroutine t that ends in r, with self.servers of generation c.
Commit(t, r, c) ==
  /\ tasks' = [tasks EXCEPT ![t] = r.tk]
  /\ tables' = Collect(r.w.tb, tasks', c)
  /\ procs' = r.w.pr
  /\ registry' = r.w.rg
  /\ cur' = c

StatusAt(n) == IF Known(cur, n) THEN tables[cur][n].status ELSE "absent"

\* await manager.start_server(n)
DoStart(t, n) ==
  /\ CanRun(t) /\ tasks[t].pc = "idle"
  /\ Commit(t, CallStart(Here, cur, [IdleTask EXCEPT !.op = "start", !.name = n,
                                                     !.st0 = StatusAt(n)], n), cur)
  /\ UNCHANGED <<scenario, shutdownEvent, globalManager, frames, phase, signals, swept, host>>

\* The pre-spawn probe of t's start answers.
StartProbe0(t) ==
  /\ CanRun(t) /\ tasks[t].pc = "s_probe0" /\ ~tasks[t].cancel
  /\ \E h \in BOOLEAN, spawned \in BOOLEAN :
       Commit(t, AfterProbe0(Here, cur, [tasks[t] EXCEPT !.answer = h], h, spawned), cur)
  /\ UNCHANGED <<scenario, shutdownEvent, globalManager, frames, phase, signals, swept, host>>

\* t's start appends the process it spawned to the registry.
StartRegister(t) ==
  /\ CanRun(t) /\ tasks[t].pc = "s_spawned"
  /\ Commit(t, Register(Here, tasks[t]), cur)
  /\ UNCHANGED <<scenario, shutdownEvent, globalManager, frames, phase, signals, swept, host>>

\* The 0.5 s sleep of t's start is over.
StartSleep(t) ==
  /\ CanRun(t) /\ tasks[t].pc = "s_sleep" /\ ~tasks[t].cancel
  /\ \E stdout \in Outputs : Commit(t, AfterSleep(Here, cur, tasks[t], stdout), cur)
  /\ UNCHANGED <<scenario, shutdownEvent, globalManager, frames, phase, signals, swept, host>>

\* The probe of a poll of t's start answers.
StartProbe(t) ==
  /\ CanRun(t) /\ tasks[t].pc = "s_probe" /\ ~tasks[t].cancel
  /\ \E h \in BOOLEAN :
       Commit(t, AfterProbe(Here, cur, [tasks[t] EXCEPT !.answer = h], h), cur)
  /\ UNCHANGED <<scenario, shutdownEvent, globalManager, frames, phase, signals, swept, host>>

\* await manager.stop_server(n): no await inside, one step.  via keeps the
\* signals the call sent.
DoStop(t, n) ==
  /\ CanRun(t) /\ tasks[t].pc = "idle"
  /\ \E graceful \in BOOLEAN :
       LET r == stop_server(Here, cur, n, graceful) IN
       Commit(t, [w |-> r.w,
                  tk |-> Returned([IdleTask EXCEPT !.op = "stop", !.name = n,
                                                   !.st0 = StatusAt(n)], r.ret, r.sent)], cur)
  /\ UNCHANGED <<scenario, shutdownEvent, globalManager, frames, phase, signals, swept, host>>

\* await manager.start_all_enabled(): the reload, then the loop up to its
\* first suspension.
DoStartAll(t) ==
  /\ CanRun(t) /\ tasks[t].pc = "idle"
  /\ cur < scenario.reloads
  /\ LET c   == cur + 1
         tb  == [tables EXCEPT ![c] = parse_mcp_servers(scenario.cfg)]
         tk0 == [IdleTask EXCEPT !.op = "startAll", !.iter = c,
                                 !.todo = EnabledServers(Keys(c), tb[c])] IN
     Commit(t, RunStartAll(W(tb, procs, registry), c, tk0), c)
  /\ UNCHANGED <<scenario, shutdownEvent, globalManager, frames, phase, signals, swept, host>>

\* manager.get_status(): synchronous, one step.
GetStatus(t) ==
  /\ CanRun(t) /\ tasks[t].pc = "idle"
  /\ tasks' = [tasks EXCEPT ![t] =
                 Returned([IdleTask EXCEPT !.op = "get_status",
                                           !.res = get_status(IF cur > 0 THEN tables[cur] ELSE NoTable,
                                                              Elems(Keys(cur)))],
                          "dict", "")]
  /\ UNCHANGED <<scenario, cur, tables, procs, registry, shutdownEvent, globalManager,
                 frames, phase, signals, swept, host>>

\* The caller takes the value a call returned.
Return(t) ==
  /\ CanRun(t) /\ tasks[t].pc = "ret"
  /\ tasks' = [tasks EXCEPT ![t] = IdleTask]
  /\ UNCHANGED <<scenario, cur, tables, procs, registry, shutdownEvent, globalManager,
                 frames, phase, signals, swept, host>>

\* Lines 353-354 of stop_all, then what the caller does with its return:
\* stop_all hands back None; shutdown_mcp_servers drops the global manager and
\* calls _cleanup_all_processes (lines 545-548).
AfterStopAll(w, c, tk, graceful) ==
  LET w1 == StopEach(w, c, Keys(c), graceful) IN
  IF tk.op = "stopAll"
  THEN [w |-> w1, tk |-> Returned(tk, None, ""), frames |-> <<>>, gm |-> globalManager]
  ELSE IF w1.rg = <<>>
  THEN [w |-> w1, tk |-> Returned(tk, None, ""), frames |-> <<>>, gm |-> FALSE]
  ELSE [w |-> w1, tk |-> [tk EXCEPT !.pc = "sd_clean"],
        frames |-> <<NewFrame("shutdown", w1.rg)>>, gm |-> FALSE]

\* A stop_all that does not wait for the health task.
C15_NoAwait(task) == FALSE

\* Lines 346-351: stop_all cancels the health task and is suspended in
\* `await self._health_check_task` unless there is no task or it is done.
MustAwait(task) == task.pc \notin {"none", "done"}

\* await manager.stop_all() (op "stopAll") or await shutdown_mcp_servers()
\* (op "shutdown"): lines 343-351.  The event is set and the health task is
\* cancelled; the caller waits for it unless there is none or it has finished.
DoStopAll(t, op) ==
  /\ CanRun(t) /\ tasks[t].pc = "idle"
  /\ op = "shutdown" => globalManager
  /\ shutdownEvent' = TRUE
  /\ LET tk0 == [IdleTask EXCEPT !.op = op] IN
     IF ~MustAwait(tasks["mon"])
     THEN \E graceful \in [ServerNames -> BOOLEAN] :
            LET r == AfterStopAll(Here, cur, tk0, graceful) IN
            /\ Commit(t, r, cur)
            /\ frames' = r.frames
            /\ globalManager' = r.gm
     ELSE /\ tasks' = [tasks EXCEPT ![t] = [tk0 EXCEPT !.pc = "sa_wait"],
                                    !["mon"].cancel = TRUE]
          /\ UNCHANGED <<cur, tables, procs, registry, frames, globalManager>>
  /\ UNCHANGED <<scenario, phase, signals, swept, host>>

\* The cancelled health task has finished: stop_all goes on to stop the servers.
StopAllResume(t) ==
  /\ CanRun(t) /\ tasks[t].pc = "sa_wait" /\ tasks["mon"].pc = "done"
  /\ \E graceful \in [ServerNames -> BOOLEAN] :
       LET r == AfterStopAll(Here, cur, tasks[t], graceful) IN
       /\ Commit(t, r, cur)
       /\ frames' = r.frames
       /\ globalManager' = r.gm
  /\ UNCHANGED <<scenario, shutdownEvent, phase, signals, swept, host>>

\* await shutdown_mcp_servers() once _global_manager is None: the cleanup only.
DoShutdownAgain(t) ==
  /\ CanRun(t) /\ tasks[t].pc = "idle"
  /\ ~globalManager
  /\ LET tk0 == [IdleTask EXCEPT !.op = "shutdown"] IN
     IF registry = <<>>
     THEN tasks' = [tasks EXCEPT ![t] = Returned(tk0, None, "")] /\ frames' = frames
     ELSE /\ tasks' = [tasks EXCEPT ![t] = [tk0 EXCEPT !.pc = "sd_clean"]]
          /\ frames' = <<NewFrame("shutdown", registry)>>
  /\ UNCHANGED <<scenario, cur, tables, procs, registry, shutdownEvent, globalManager,
                 phase, signals, swept, host>>

\* shutdown_mcp_servers_sync(), called on the loop's thread: lines 557-578.
\* It stops the processes of the servers, drops the global manager and calls
\* _cleanup_all_processes; the event and the health task are not touched.
DoShutdownSync(t) ==
  /\ "sync" \in scenario.actors
  /\ CanRun(t) /\ tasks[t].pc = "idle"
  /\ \E graceful \in [ServerNames -> BOOLEAN] :
       LET w1  == IF globalManager THEN SyncStopEach(Here, cur, Keys(cur), graceful) ELSE Here
           tk0 == [IdleTask EXCEPT !.op = "shutdownSync"] IN
       /\ procs' = w1.pr
       /\ IF registry = <<>>
          THEN tasks' = [tasks EXCEPT ![t] = Returned(tk0, None, "")] /\ frames' = frames
          ELSE /\ tasks' = [tasks EXCEPT ![t] = [tk0 EXCEPT !.pc = "sd_clean"]]
               /\ frames' = <<NewFrame("shutdown", registry)>>
  /\ globalManager' = FALSE
  /\ UNCHANGED <<scenario, cur, tables, registry, shutdownEvent, phase, signals, swept, host>>

\* A registration that is made at every call.
C35_RegisterEveryTime(hooks) == hooks + 1

\* Lines 482-507, _register_cleanup(): atexit.register and signal.signal are
\* called unless _cleanup_registered is set; hooks counts the registrations.
register_cleanup(hooks) == IF hooks > 0 THEN hooks ELSE hooks + 1

\* get_mcp_manager(), lines 510-517, called between calls: if _global_manager
\* is None (a shutdown has dropped it) a fresh MCPServerManager is made, with
\* an empty table, an event that is not set and no health task, and
\* _register_cleanup() is called; otherwise the manager in use is handed back.
\* Nothing holds on to the manager dropped: no call on it is in progress and
\* its health task has ended.
get_mcp_manager ==
  /\ "again" \in scenario.actors
  /\ phase = "run" /\ frames = <<>>
  /\ \A t \in Callers : tasks[t].pc = "idle"
  /\ tasks["mon"].pc \in {"none", "done"}
  /\ IF ~globalManager /\ host.managers < MaxManagers
     THEN /\ globalManager' = TRUE
          /\ cur' = 0
          /\ tables' = [g \in Gens |-> NoTable]
          /\ shutdownEvent' = FALSE
          /\ tasks' = [tasks EXCEPT !["mon"] = NoTask]
          /\ host' = [managers |-> host.managers + 1, hooks |-> register_cleanup(host.hooks)]
     ELSE UNCHANGED <<globalManager, cur, tables, shutdownEvent, tasks, host>>
  /\ UNCHANGED <<scenario, procs, registry, frames, phase, signals, swept>>

\* The directory of the scripts stops being searchable (EACCES) while no caller
\* is in a call: from then on script_path.exists() raises PermissionError.
ScriptsUnreadable ==
  /\ "fs" \in scenario.actors /\ scenario.fs = "ok"
  /\ phase = "run" /\ frames = <<>>
  /\ \A t \in Callers : tasks[t].pc = "idle"
  /\ scenario' = [scenario EXCEPT !.fs = "denied"]
  /\ UNCHANGED <<cur, tables, procs, registry, tasks, shutdownEvent, globalManager,
                 frames, phase, signals, swept, host>>

\* A start_health_check that makes a task at every call.
C31_AlwaysCreates(task) == TRUE

\* Line 391: self._health_check_task is None or self._health_check_task.done()
NoTaskOrDone(task) == task.pc \in {"none", "done"}

\* manager.start_health_check(): a task is made if there is none or it is done;
\* otherwise the call does nothing.
start_health_check ==
  /\ CanRun("mon")
  /\ tasks' = IF NoTaskOrDone(tasks["mon"])
              THEN [tasks EXCEPT !["mon"] = MonitorTask("m_new")]
              ELSE tasks
  /\ UNCHANGED <<scenario, cur, tables, procs, registry, shutdownEvent, globalManager,
                 frames, phase, signals, swept, host>>

\* The health task runs for the first time: the while test, then the sleep.
MonFirst ==
  /\ CanRun("mon") /\ tasks["mon"].pc = "m_new" /\ ~tasks["mon"].cancel
  /\ tasks' = [tasks EXCEPT !["mon"] = MonitorTask(IF shutdownEvent THEN "done" ELSE "m_sleep")]
  /\ UNCHANGED <<scenario, cur, tables, procs, registry, shutdownEvent, globalManager,
                 frames, phase, signals, swept, host>>

\* The interval sleep is over: a cycle over self.servers.items() begins.
MonWake ==
  /\ CanRun("mon") /\ tasks["mon"].pc = "m_sleep" /\ ~tasks["mon"].cancel
  /\ Commit("mon", RunMonitor(Here, cur, [tasks["mon"] EXCEPT !.iter = cur, !.todo = Keys(cur),
                                                             !.res = {}, !.answer = FALSE,
                                                             !.via = ""]),
            cur)
  /\ UNCHANGED <<scenario, shutdownEvent, globalManager, frames, phase, signals, swept, host>>

\* The monitor's probe answers.
MonProbe ==
  /\ CanRun("mon") /\ tasks["mon"].pc = "m_probe" /\ ~tasks["mon"].cancel
  /\ \E h \in BOOLEAN : Commit("mon", AfterMonitorProbe(Here, cur, tasks["mon"], h), cur)
  /\ UNCHANGED <<scenario, shutdownEvent, globalManager, frames, phase, signals, swept, host>>

\* A health task that does not react to its cancellation.
C32_CancelIgnored(tk) == tk

\* Lines 383-384: CancelledError, raised at the await the task is suspended
\* in (the sleep, the probe, or an await inside start_server, whose handlers
\* for Exception let it pass), ends the loop: break.  A task cancelled
\* before its first step ends without running.  via keeps whether the task
\* was inside a restart (start_server) then.
Cancelled(tk) ==
  [MonitorTask("done") EXCEPT
     !.via = IF tk.pc \in {"s_probe0", "s_sleep", "s_probe"} THEN "restart" ELSE ""]

\* The cancellation reaches the health task.
MonCancelled ==
  /\ CanRun("mon") /\ tasks["mon"].cancel
  /\ Commit("mon", [w |-> Here, tk |-> Cancelled(tasks["mon"])], cur)
  /\ UNCHANGED <<scenario, shutdownEvent, globalManager, frames, phase, signals, swept, host>>

\* The running cleanup pass takes its next step for its current entry.
PassStep ==
  /\ frames # <<>>
  /\ LET top == frames[Len(frames)] IN
     /\ top.pc # "clear"
     /\ \E dies \in BOOLEAN :
          LET r == PassEntry(procs, top, dies) IN
          /\ procs' = r.pr
          /\ frames' = [frames EXCEPT ![Len(frames)] = r.f]
  /\ UNCHANGED <<scenario, cur, tables, registry, tasks, shutdownEvent, globalManager,
                 phase, signals, swept, host>>

\* Once the interpreter is bound to exit no coroutine runs again and nothing
\* reads the manager: from then on the model keeps the processes and the registry.
Forget(ph) ==
  IF ph = "run"
  THEN UNCHANGED <<cur, tables, shutdownEvent, globalManager>>
  ELSE /\ cur' = 0
       /\ tables' = [g \in Gens |-> NoTable]
       /\ shutdownEvent' = FALSE
       /\ globalManager' = FALSE

\* The running pass clears the registry and returns to its caller:
\* shutdown_mcp_servers returns, the exit hook ends, signal_handler calls sys.exit(0).
PassClear ==
  /\ frames # <<>>
  /\ LET top  == frames[Len(frames)]
         rest == SubSeq(frames, 1, Len(frames) - 1) IN
     /\ top.pc = "clear"
     /\ registry' = ClearRegistry(registry)
     /\ swept' = swept \cup (Elems(registry) \ Elems(registry'))
     /\ CASE top.src = "shutdown" ->
               /\ frames' = rest
               /\ phase' = phase
               /\ tasks' = [t \in Tasks |-> IF tasks[t].pc = "sd_clean"
                                            THEN Returned(tasks[t], None, "") ELSE tasks[t]]
          [] top.src = "atexit" ->
               /\ frames' = rest
               /\ phase' = "halted"
               /\ tasks' = tasks
          [] top.src = "signal" ->
               LET x == RaiseExit(rest, registry', phase) IN
               /\ frames' = x.frames
               /\ phase' = x.phase
               /\ tasks' = IF x.phase = "run" THEN tasks ELSE [t \in Tasks |-> NoTask]
     /\ Forget(phase')
  /\ UNCHANGED <<scenario, procs, signals, host>>

\* SIGINT or SIGTERM is delivered: signal_handler calls _cleanup_all_processes,
\* which returns at once on an empty registry, then sys.exit(0).  A handler that
\* interrupts no cleanup pass ends the program for certain: phase "dying".
Signal ==
  /\ "exit" \in scenario.actors
  /\ phase \in {"run", "dying", "atexit"}
  /\ signals < MaxSignals
  /\ signals' = signals + 1
  /\ LET ph == IF phase = "run" /\ frames = <<>> THEN "dying" ELSE phase IN
     IF registry = <<>>
     THEN LET x == RaiseExit(frames, registry, ph) IN
          frames' = x.frames /\ phase' = x.phase
     ELSE frames' = Append(frames, NewFrame("signal", registry)) /\ phase' = ph
  /\ tasks' = IF phase' = "run" THEN tasks ELSE [t \in Tasks |-> NoTask]
  /\ Forget(phase')
  /\ UNCHANGED <<scenario, procs, registry, swept, host>>

\* The interpreter exits (the event loop has ended): the exit hooks run.
Exit ==
  /\ "exit" \in scenario.actors
  /\ phase = "run" /\ frames = <<>>
  /\ \A u \in Tasks : tasks[u].pc # "s_spawned"
  /\ LET x == ExitNow(registry) IN frames' = x.frames /\ phase' = x.phase
  /\ tasks' = [t \in Tasks |-> NoTask]
  /\ Forget(phase')
  /\ UNCHANGED <<scenario, procs, registry, signals, swept, host>>

\* A spawned process exits by itself.  (During a cleanup pass an exit shows
\* as the choice "dies" of the pass's next look at the process.)
ProcExit(p) ==
  /\ phase = "run" /\ frames = <<>>
  /\ procs[p].st = "alive"
  /\ procs' = [procs EXCEPT ![p].st = "zombie"]
  /\ UNCHANGED <<scenario, cur, tables, registry, tasks, shutdownEvent, globalManager,
                 frames, phase, signals, swept, host>>

\* ------------------------------------------------------------ specification
\* After get_mcp_manager(): a manager with an empty table, no health task, the
\* cleanup registered; nothing spawned yet.
Init ==
  /\ scenario \in Scenarios
  /\ cur = 0
  /\ tables = [g \in Gens |-> NoTable]
  /\ procs = [p \in Pids |-> Unborn]
  /\ registry = <<>>
  /\ tasks = [t \in Tasks |-> IF t = "mon" THEN NoTask ELSE IdleTask]
  /\ shutdownEvent = FALSE
  /\ globalManager = TRUE
  /\ frames = <<>>
  /\ phase = "run"
  /\ signals = 0
  /\ swept = {}
  /\ host = [managers |-> 1, hooks |-> 1]

Next ==
  \/ \E t \in Callers, n \in ServerNames : DoStart(t, n)
  \/ \E t \in Callers, n \in ServerNames : DoStop(t, n)
  \/ DoStartAll("t1")
  \/ \E op \in {"stopAll", "shutdown"} : DoStopAll("t1", op)
  \/ StopAllResume("t1")
  \/ DoShutdownAgain("t1")
  \/ GetStatus("t1")
  \/ DoShutdownSync("t1")
  \/ \E t \in Callers : Return(t)
  \/ \E t \in Tasks : StartProbe0(t)
  \/ \E t \in Tasks : StartRegister(t)
  \/ \E t \in Tasks : StartSleep(t)
  \/ \E t \in Tasks : StartProbe(t)
  \/ start_health_check
  \/ MonFirst
  \/ MonWake
  \/ MonProbe
  \/ MonCancelled
  \/ PassStep
  \/ PassClear
  \/ ScriptsUnreadable
  \/ get_mcp_manager
  \/ Signal
  \/ Exit
  \/ \E p \in Pids : ProcExit(p)

Spec == Init /\ [][Next]_vars

\* The run with one server and the health task, under the event loop's
\* scheduling: a task whose sleep is over or whose probe has answered (the
\* probe's client times out after 2 s) is resumed, a cancelled task gets its
\* CancelledError, and a stop_all that waits for the health task goes on once
\* the task is done (it is woken by the end of the task it awaits, also when
\* start_health_check has put a new task into the attribute since).  Code without an await runs on: the append that follows
\* Popen, and a cleanup pass.  Callers are free to make no call at all.
FairInit == Init /\ scenario = Scenario(OneServer, {"mon"}, MaxReloads)

FairNext ==
  \/ \E t \in Callers, n \in ServerNames : DoStart(t, n)
  \/ \E t \in Callers, n \in ServerNames : DoStop(t, n)
  \/ DoStartAll("t1")
  \/ \E op \in {"stopAll", "shutdown"} : DoStopAll("t1", op)
  \/ StopAllResume("t1")
  \/ DoShutdownAgain("t1")
  \/ GetStatus("t1")
  \/ \E t \in Callers : Return(t)
  \/ \E t \in Tasks : StartProbe0(t)
  \/ \E t \in Tasks : StartRegister(t)
  \/ \E t \in Tasks : StartSleep(t)
  \/ \E t \in Tasks : StartProbe(t)
  \/ start_health_check
  \/ MonFirst
  \/ MonWake
  \/ MonProbe
  \/ MonCancelled
  \/ PassStep
  \/ PassClear
  \/ \E p \in Pids : ProcExit(p)

FairSpec ==
  /\ FairInit /\ [][FairNext]_vars
  /\ WF_vars(MonFirst) /\ WF_vars(MonWake) /\ WF_vars(MonProbe)
  /\ WF_vars(MonCancelled) /\ SF_vars(StopAllResume("t1"))
  /\ \A t \in Tasks : WF_vars(StartRegister(t))
  /\ WF_vars(PassStep) /\ WF_vars(PassClear)

\* --------------------------------------------------------------- properties
\* In this step the caller t calls start_server(n).
StartCalled(t, n) ==
  tasks[t].pc = "idle" /\ tasks'[t].op = "start" /\ tasks'[t].name = n

\* The state a call of the manager or of the cleanup can change.
heap == <<cur, tables, procs, registry>>

\* The calls of the manager's API are made one after another: there is no
\* second concurrent caller (the health task may run).
OneCaller == "t2" \notin scenario.actors

\* C1: after any sequence of start_server, stop_server, start_all_enabled,
\* monitor cycles and stop_all, no server name has two live processes that
\* start_server spawned for it.
C1_OneLiveProcessPerName ==
  OneCaller =>
    \A p, q \in Pids :
      (p # q /\ Alive(procs, p) /\ Alive(procs, q)) => procs[p].name # procs[q].name

\* C2: every process handle a server of the manager's table refers to is an
\* entry of the registry (outside the statements between Popen and the append).
C2_HandlesAreRegistered ==
  (\A t \in Tasks : tasks[t].pc # "s_spawned") =>
    \A n \in ServerNames :
      (Known(cur, n) /\ tables[cur][n].process # NoProc) =>
        tables[cur][n].process \in Elems(registry)

\* C3: when stop_all returns, no entry of the registry is a live process,
\* whatever sequence of calls preceded it.
C3_StopAllLeavesNoLiveEntry ==
  [][\A t \in Callers :
       (/\ OneCaller
        /\ tasks[t].pc # "ret" /\ tasks'[t].pc = "ret" /\ tasks'[t].op = "stopAll") =>
         \A p \in Elems(registry') : ~Alive(procs', p)]_vars

\* C4: _cleanup_all_processes is idempotent.  A pass that ends leaves the
\* registry empty and every process it tracked dead; no process that was removed
\* from the registry is ever alive; a call on the empty registry starts no pass,
\* so the exit hook's call that follows the signal handler's changes nothing.
C4_CleanupIdempotent ==
  /\ [](\A p \in swept : ~Alive(procs, p))
  /\ [][/\ (/\ frames # <<>> /\ frames[Len(frames)].pc = "clear"
            /\ Len(frames') < Len(frames)) =>
             /\ registry' = <<>>
             /\ \A p \in Elems(registry) : ~Alive(procs', p)
             /\ (Len(frames) = 1 /\ frames[1].src = "signal") =>
                  (frames' = <<>> /\ phase' = "halted" /\ procs' = procs)
        /\ registry = <<>> => Len(frames') <= Len(frames)]_vars

\* C4 witness: the signal handler's pass has removed processes from the registry
\* and the exit hook's call has followed it.
C4_TwoCallsInSuccession ==
  phase = "halted" /\ signals > 0 /\ swept # {} /\ registry = <<>>

\* C5: no invocation of _cleanup_all_processes raises when invocations
\* interleave: when the signal handler's pass has ended, the pass it
\* interrupted goes on.
C5_InterruptedPassGoesOn ==
  [][(/\ Len(frames) >= 2 /\ frames[Len(frames)].pc = "clear"
      /\ Len(frames') < Len(frames)) =>
       /\ Len(frames') = Len(frames) - 1
       /\ \A k \in 1..Len(frames') : frames'[k].src = frames[k].src]_vars

\* C6: once control has left the spawn step, every live spawned process is an
\* entry of the registry.
C6_LiveProcessIsRegistered ==
  (\A t \in Tasks : tasks[t].pc # "s_spawned") =>
    \A p \in Pids : Alive(procs, p) => p \in Elems(registry)

\* C7: start_server of a name that is no key of self.servers returns False at
\* once (no probe), and changes neither the table, nor any server's status,
\* handle or error, nor the processes, nor the registry.
C7_UnknownNameRejected ==
  [][\A t \in Callers, n \in ServerNames :
       (StartCalled(t, n) /\ ~Known(cur, n)) =>
         /\ tasks'[t].pc = "ret" /\ tasks'[t].ret = "False"
         /\ UNCHANGED heap]_vars

\* C7 witness: a start_server of an unknown name has returned.
C7_UnknownNameReturned ==
  \E t \in Callers : tasks[t].pc = "ret" /\ tasks[t].op = "start" /\ tasks[t].via = "unknown"

C9_StartingStartRejected ==
  [][\A t \in Callers, n \in ServerNames :
       (StartCalled(t, n) /\ StatusAt(n) = "starting") =>
         /\ tasks'[t].pc = "ret" /\ tasks'[t].ret = "False"
         /\ UNCHANGED heap]_vars

\* C10: when start_server finds that the process it spawned has exited during
\* the poll loop, it returns False, the status is "failed" and the error is a
\* non-empty string, whatever the process wrote.
C10_ExitedProcessHasError ==
  [][\A t \in Callers :
       (/\ tasks[t].op = "start" /\ tasks[t].pc = "s_sleep" /\ tasks[t].gen = cur
        /\ tasks'[t].pc = "ret" /\ tasks'[t].via = "exited") =>
         /\ tasks'[t].ret = "False"
         /\ tables'[cur][tasks[t].name].status = "failed"
         /\ tables'[cur][tasks[t].name].error \notin {None, ""}]_vars

\* C11: a start_server whose pre-spawn probe is answered (so the server is
\* enabled, has its script and no live handle) returns True in that very step
\* with status "running": no process is spawned, the handle is left as it was,
\* the registry gets no entry, and since nothing runs between the answer and
\* the return the status is never "starting" on the way.
C11_PortAnswersNoSpawn ==
  [][\A t \in Callers :
       (tasks[t].op = "start" /\ tasks[t].pc = "s_probe0"
          /\ tasks'[t].pc # "s_probe0" /\ tasks'[t].answer)
       => /\ tasks'[t].pc = "ret" /\ tasks'[t].ret = "True"
          /\ tables'[tasks[t].gen][tasks[t].name].status = "running"
          /\ tables'[tasks[t].gen][tasks[t].name].process
               = tables[tasks[t].gen][tasks[t].name].process
          /\ procs' = procs
          /\ registry' = registry]_vars

\* A start has returned True on the port's answer and nothing was ever spawned.
C11_PortAnswered ==
  \E t \in Callers :
    /\ tasks[t].pc = "ret" /\ tasks[t].op = "start" /\ tasks[t].via = "port"
    /\ tasks[t].answer /\ tasks[t].ret = "True"
    /\ tables[cur][tasks[t].name].status = "running"
    /\ tables[cur][tasks[t].name].process = NoProc
    /\ registry = <<>> /\ \A p \in Pids : procs[p] = Unborn

\* The dict get_status returns now.
StatusReport == get_status(IF cur > 0 THEN tables[cur] ELSE NoTable, Elems(Keys(cur)))

\* C12: when start_all_enabled has returned, every enabled server whose script
\* is missing on disk has False in the returned map, and get_status shows it
\* with status "failed" and an error.
C12_MissingScriptShownFailed ==
  \A t \in Callers :
    (tasks[t].pc = "ret" /\ tasks[t].op = "startAll")
    => \A n \in Configured(scenario.cfg) :
         (EntryOf(scenario.cfg, n).enabled /\ ~ScriptExists(n))
         => /\ <<n, "False">> \in tasks[t].res
            /\ \E e \in StatusReport :
                 e[1] = n /\ e[2].status = "failed" /\ e[2].error # None

\* C13: with the single enabled definition of url http://localhost:9001 and
\* its script present, a start_all_enabled whose start spawned the process
\* (nothing answered before) and whose probe is answered in one of the first
\* three polls returns {name: True} in that step, and get_status then shows
\* the server enabled, "running", on port 9001, with no error.
C13_SingleServerComesUp ==
  [][\A t \in Callers :
       (scenario.cfg = OneServer /\ tasks[t].op = "startAll" /\ tasks[t].pc = "s_probe"
          /\ tasks[t].i < 3 /\ tasks'[t].pc # "s_probe" /\ tasks'[t].answer)
       => /\ tasks'[t].pc = "ret"
          /\ tasks'[t].res = {<<"elasticsearch", "True">>}
          /\ StatusReport' =
               {<<"elasticsearch",
                  [enabled |-> TRUE, status |-> "running", port |-> 9001,
                   url |-> "http://localhost:9001", error |-> None,
                   has_script |-> TRUE]>>}]_vars

\* start_all_enabled has returned {elasticsearch: True} after a probe of the
\* process it spawned was answered.
C13_SingleServerIsUp ==
  \E t \in Callers :
    /\ scenario.cfg = OneServer
    /\ tasks[t].pc = "ret" /\ tasks[t].op = "startAll" /\ tasks[t].answer
    /\ tasks[t].res = {<<"elasticsearch", "True">>}
    /\ tables[cur]["elasticsearch"].process # NoProc
    /\ Alive(procs, tables[cur]["elasticsearch"].process)
    /\ tables[cur]["elasticsearch"].process \in Elems(registry)
    /\ tables[cur]["elasticsearch"].status = "running"

\* No coroutine but the caller t1 starts servers: no second caller and no
\* health task.
Alone == scenario.actors \cap {"t2", "mon"} = {}

C15_MonitorQuietAfterStopAll ==
  (shutdownEvent /\ \A t \in Callers : tasks[t].pc # "sa_wait")
  => tasks["mon"].pc \in {"none", "done", "m_new"}

\* stop_all has returned; the health task was inside a restart when it was
\* cancelled.
C15_CancelledInsideRestart ==
  /\ tasks["t1"].pc = "ret" /\ tasks["t1"].op = "stopAll"
  /\ shutdownEvent
  /\ tasks["mon"].pc = "done" /\ tasks["mon"].via = "restart"

\* C16: once a shutdown has begun (the global manager is dropped, by
\* shutdown_mcp_servers or by shutdown_mcp_servers_sync) the health task spawns
\* no process for a server whose process the shutdown has ended and swept
\* from the registry.
C16_NoSpawnAfterShutdown ==
  [][~globalManager
     => ~(/\ tasks["mon"].pc # "s_spawned" /\ tasks'["mon"].pc = "s_spawned"
          /\ \E p \in swept : procs[p].name = tasks'["mon"].name)]_vars

\* C17: when a cycle of the health task ends in which it restarted a server
\* (the server was "running" and its probe failed, so the task set "failed"
\* and called start_server once), the server's status is "running" if that
\* start_server returned True and "failed" if it returned False.
C17_RestartSettlesStatus ==
  [][(/\ tasks["mon"].pc \in {"m_probe", "s_probe0", "s_sleep", "s_probe"}
      /\ tasks'["mon"].pc = "m_sleep"
      /\ tasks["mon"].iter = cur /\ cur' = cur)
     => \A e \in tasks'["mon"].res :
          tables'[cur][e[1]].status = IF e[2] = "True" THEN "running" ELSE "failed"]_vars

\* In this step the caller t calls stop_server(n).
StopCalled(t, n) ==
  tasks[t].pc = "idle" /\ tasks'[t].op = "stop" /\ tasks'[t].name = n

\* C18: stop_server on a known server without a live handle (no handle, or a
\* handle whose process has exited) returns True, sends no signal and leaves
\* the server "stopped" without a handle.  (Stated for calls made one after
\* another.)
C18_StopWithoutLiveHandleIsNoOp ==
  [][\A t \in Callers, n \in ServerNames :
       (OneCaller /\ StopCalled(t, n) /\ Known(cur, n)
          /\ (tables[cur][n].process = NoProc \/ ~Alive(procs, tables[cur][n].process)))
       => /\ tasks'[t].ret = "True" /\ tasks'[t].via = ""
          /\ tables'[cur][n].status = "stopped"
          /\ tables'[cur][n].process = NoProc]_vars

\* C19: stop_server on a server whose handle is alive returns True with the
\* handle cleared, the status "stopped" and the process no longer alive.  It
\* sends SIGTERM first; it sends SIGKILL after it exactly when the wait that
\* follows SIGTERM did not see the process end (the process was not reaped by
\* that wait).
C19_StopEscalates ==
  [][\A t \in Callers, n \in ServerNames :
       (StopCalled(t, n) /\ Known(cur, n)
          /\ tables[cur][n].process # NoProc /\ Alive(procs, tables[cur][n].process))
       => LET p == tables[cur][n].process IN
          /\ tasks'[t].ret = "True"
          /\ tables'[cur][n].process = NoProc
          /\ tables'[cur][n].status = "stopped"
          /\ ~Alive(procs', p)
          /\ \/ tasks'[t].via = "SIGTERM" /\ procs'[p].st = "reaped"
             \/ tasks'[t].via = "SIGTERM,SIGKILL" /\ procs'[p].st = "zombie"]_vars

\* A stop_server has returned True after it had to send SIGKILL.
C19_StoppedByKill ==
  \E t \in Callers :
    /\ tasks[t].pc = "ret" /\ tasks[t].op = "stop" /\ tasks[t].ret = "True"
    /\ tasks[t].via = "SIGTERM,SIGKILL"
    /\ tables[cur][tasks[t].name].process = NoProc
    /\ tables[cur][tasks[t].name].status = "stopped"
    /\ \E p \in Pids : procs[p].name = tasks[t].name /\ procs[p].st = "zombie"

\* C20: get_status is read-only and total.  A call changes nothing but the
\* caller's own position and hands back one record {enabled, status, port,
\* url, error, has_script} for each key of self.servers, holding the server's
\* fields as they are; and whenever the caller is free to make a call the call
\* is possible, also while the table is still empty.
C20_GetStatusReadOnly ==
  /\ []((tasks["t1"].pc = "idle" /\ CanRun("t1")) => ENABLED GetStatus("t1"))
  /\ [][\A t \in Callers :
          (tasks[t].pc = "idle" /\ tasks'[t].op = "get_status")
          => /\ UNCHANGED <<heap, shutdownEvent, globalManager, frames, phase, swept, host>>
             /\ \A u \in Tasks \ {t} : tasks'[u] = tasks[u]
             /\ tasks'[t].pc = "ret"
             /\ tasks'[t].res =
                  {<<n, [enabled |-> tables[cur][n].enabled,
                         status |-> tables[cur][n].status,
                         port |-> tables[cur][n].port,
                         url |-> tables[cur][n].url,
                         error |-> tables[cur][n].error,
                         has_script |-> tables[cur][n].script_path]>> :
                     n \in {m \in ServerNames : Known(cur, m)}}]_vars

\* get_status has returned the record of a server that failed with an error.
C20_FailedServerReported ==
  /\ tasks["t1"].pc = "ret" /\ tasks["t1"].op = "get_status"
  /\ \E e \in tasks["t1"].res :
       /\ e[2].status = "failed" /\ e[2].error # None
       /\ e[2].error = tables[cur][e[1]].error

\* C21: _cleanup_all_processes never raises and always completes its pass: a
\* pass ends only by its own clear() after the last entry of its snapshot, and
\* it ends alone (no other pass is given up with it).
C21_PassAlwaysCompletes ==
  [][Len(frames') < Len(frames)
     => /\ frames[Len(frames)].pc = "clear"
        /\ frames[Len(frames)].i = Len(frames[Len(frames)].snap)
        /\ Len(frames') = Len(frames) - 1]_vars

\* A live process that no server of the current table holds a handle of: its
\* MCPServerInfo was replaced by a reload.
Discarded(p) ==
  Alive(procs, p) /\ (cur > 0 => \A n \in ServerNames : tables[cur][n].process # p)

\* C22: the registry does not depend on the tables.  While the program runs
\* (and no start stands between Popen and the append) every live process that
\* a reload has discarded is still in the registry, a pass walks the whole
\* registry, and when a pass clears the registry none of its entries is
\* alive, whether a table still refers to it or not.
C22_DiscardedProcessesAreSwept ==
  /\ []((phase = "run" /\ \A t \in Tasks : tasks[t].pc # "s_spawned")
        => \A p \in Pids : Discarded(p) => p \in Elems(registry))
  /\ [](\A k \in 1..Len(frames) : frames[k].pc # "clear" =>
          Elems(registry) \subseteq Elems(frames[k].snap))
  /\ [][(frames # <<>> /\ frames[Len(frames)].pc = "clear" /\ Len(frames') < Len(frames))
        => \A p \in Elems(registry) : ~Alive(procs', p)]_vars

\* A pass is done with an entry that was alive when the pass came to it and
\* that no server of the current table holds a handle of.
C22_DiscardedProcessEnded ==
  /\ phase = "run" /\ cur > 0 /\ frames # <<>>
  /\ LET top == frames[Len(frames)]
         p   == top.snap[top.i] IN
     /\ top.pc = "wait"
     /\ ~Alive(procs, p)
     /\ \A n \in ServerNames : tables[cur][n].process # p
     /\ tables[cur][procs[p].name].process # NoProc

\* The coroutine t takes this step (and it is not the program ending).
Steps(t) == tasks'[t] # tasks[t] /\ phase' = "run" /\ cur' = cur

\* C23: the mutations of one server's state exclude each other.  A
\* start_server that was suspended in its poll loop while a stop_server cleared
\* the handle and set "stopped" leaves both as they are when it goes on, and
\* no two start_server calls for one name are past their Popen at once.
C23_StartAndStopExclude ==
  /\ [][\A t \in Tasks :
          (/\ tasks[t].pc \in {"s_sleep", "s_probe"} /\ Steps(t)
           /\ tasks[t].gen = cur
           /\ tables[cur][tasks[t].name].status = "stopped"
           /\ tables[cur][tasks[t].name].process = NoProc)
          => /\ tables'[cur][tasks[t].name].status = "stopped"
             /\ tables'[cur][tasks[t].name].process = NoProc]_vars
  /\ [](\A t, u \in Tasks :
          (/\ t # u /\ tasks[t].name = tasks[u].name
           /\ tasks[t].pc \in {"s_spawned", "s_sleep", "s_probe"}
           /\ tasks[u].pc \in {"s_spawned", "s_sleep", "s_probe"})
          => FALSE)

\* C24: whenever start_server returns True the server's error is None.
\* (Stated for calls made one after another.)
C24_SuccessClearsError ==
  [][\A t \in Callers :
       (OneCaller /\ tasks[t].pc # "ret" /\ tasks'[t].pc = "ret"
          /\ tasks'[t].op = "start" /\ tasks'[t].ret = "True")
       => tables'[cur'][tasks'[t].name].error = None]_vars

\* C25: when the last poll of start_server's wait goes unanswered too, the
\* call returns True in that step with status "running", and the handle of
\* the process it spawned stays.
C25_TimeoutCountsAsRunning ==
  [][\A t \in Callers :
       (tasks[t].op = "start" /\ tasks[t].pc = "s_probe" /\ tasks[t].i = MaxPolls - 1
          /\ Steps(t) /\ ~tasks'[t].answer)
       => /\ tasks'[t].pc = "ret" /\ tasks'[t].ret = "True"
          /\ tables'[cur][tasks[t].name].status = "running"
          /\ tables'[cur][tasks[t].name].process = tables[cur][tasks[t].name].process]_vars

\* A start_server has returned True after its last poll went unanswered; the
\* process it spawned is alive.
C25_TimedOutAlive ==
  \E t \in Callers :
    /\ tasks[t].pc = "ret" /\ tasks[t].op = "start" /\ tasks[t].via = "timeout"
    /\ tasks[t].ret = "True" /\ ~tasks[t].answer
    /\ tables[cur][tasks[t].name].status = "running"
    /\ tables[cur][tasks[t].name].process # NoProc
    /\ Alive(procs, tables[cur][tasks[t].name].process)

\* C26: no server goes from "stopped" to "failed" directly.  The only step
\* that shows a "stopped" server as "failed" next is the launch error of a
\* start_server resumed from its pre-spawn probe, which sets "starting" on the
\* way (line 197).  (Stated for calls made one after another.)
C26_FailedOnlyFromStartingOrRunning ==
  [][\A n \in ServerNames :
       (OneCaller /\ Known(cur, n) /\ cur' = cur /\ phase' = "run"
          /\ tables[cur][n].status = "stopped" /\ tables'[cur][n].status = "failed")
       => \E t \in Tasks : tasks[t].pc = "s_probe0" /\ tasks[t].name = n /\ Steps(t)]_vars

\* The health task is in its loop and nothing has asked it to end.
MonitorRuns ==
  /\ tasks["mon"].pc \in {"m_sleep", "m_probe"}
  /\ ~tasks["mon"].cancel /\ ~shutdownEvent /\ phase = "run"

\* The server is enabled and was left "failed" by a launch error.
LaunchFailed(n) ==
  /\ Known(cur, n) /\ tables[cur][n].enabled
  /\ tables[cur][n].status = "failed" /\ tables[cur][n].error = LaunchErrorMsg

\* C27: a server left "failed" by a launch error is retried by the health
\* task.  From a state where the task runs, the server is in that condition
\* and no caller is in a call, it leads to: the task is inside a restart of a
\* server or has made one in its last cycle, or the condition has ended (the
\* server answered a probe or was stopped, the table was reloaded, a caller
\* made a call, the task was asked to end).
C27_LaunchFailureRetried ==
  (MonitorRuns /\ LaunchFailed("elasticsearch") /\ \A t \in Callers : tasks[t].pc = "idle")
  ~> \/ tasks["mon"].pc \in {"s_probe0", "s_spawned", "s_sleep", "s_probe"}
     \/ tasks["mon"].res # {}
     \/ ~MonitorRuns
     \/ ~LaunchFailed("elasticsearch")
     \/ \E t \in Callers : tasks[t].pc # "idle"

\* C28: when the probe of a monitor cycle answers for a server of the table in
\* use whose status is "starting" or "failed", the server is "running"
\* afterwards, no process was spawned or registered, and the cycle does not
\* come back to the server: the task is not inside a start and the server is
\* not among those still to do.
C28_AnsweringServerIsHealed ==
  [][LET mon == tasks["mon"]
         n == mon.name
         g == mon.iter IN
     (/\ mon.pc = "m_probe" /\ tasks'["mon"] # mon /\ tasks'["mon"].answer
      /\ g = cur /\ tables[g][n].enabled /\ tables[g][n].status \in {"starting", "failed"})
     => /\ tables'[g][n].status = "running"
        /\ tables'[g][n].process = tables[g][n].process
        /\ procs' = procs /\ registry' = registry
        /\ tasks'["mon"].pc \in {"m_probe", "m_sleep"}
        /\ n \notin Elems(tasks'["mon"].todo)]_vars

\* The monitor has found a failed server answering and logged it as recovered.
C28_FailedServerRecovered ==
  /\ phase = "run" /\ cur > 0 /\ tasks["mon"].pc = "m_sleep" /\ tasks["mon"].iter = 0
  /\ tasks["mon"].answer /\ tasks["mon"].via = "recovered" /\ tasks["mon"].res = {}
  /\ \E n \in ServerNames :
       /\ Known(cur, n) /\ tables[cur][n].status = "running"
       /\ tables[cur][n].error = LaunchErrorMsg /\ tables[cur][n].process = NoProc

\* C29: the monitor leaves a server alone whose status is "stopped".  A step
\* of the health task in which no caller's call moves keeps every "stopped"
\* server of the table in use "stopped" and without a handle.
C29_MonitorLeavesStoppedAlone ==
  [][\A n \in ServerNames :
       (/\ OneCaller /\ Known(cur, n) /\ Steps("mon")
        /\ \A t \in Callers : tasks'[t] = tasks[t]
        /\ tables[cur][n].status = "stopped")
       => /\ tables'[cur][n].status = "stopped"
          /\ tables'[cur][n].process = tables[cur][n].process]_vars

\* C30: an error met while the monitor handles one server does not end the
\* cycle.  When the health task, handling a server of the table in use, goes
\* on to its next sleep, none of the servers that came after that one in the
\* cycle is left that should have been probed (enabled and not "stopped").
C30_ErrorsSwallowedPerServer ==
  [][LET mon == tasks["mon"] IN
     (/\ mon.pc \in {"m_probe", "s_probe0", "s_sleep", "s_probe"} /\ mon.op = "monitor"
      /\ Steps("mon") /\ ~mon.cancel /\ mon.iter = cur
      /\ tasks'["mon"].pc = "m_sleep")
     => \A n \in Elems(Tail(mon.todo)) :
          ~tables'[cur][n].enabled \/ tables'[cur][n].status = "stopped"]_vars

\* C31: at most one health task is active.  A step that puts a new task into
\* _health_check_task is taken only when the attribute held no task or a task
\* that had finished, so no task that still runs is ever replaced.
C31_OneHealthTask ==
  [][(tasks'["mon"] = [IdleTask EXCEPT !.op = "monitor", !.pc = "m_new"]
        /\ tasks'["mon"] # tasks["mon"])
     => tasks["mon"].pc \in {"none", "done"}]_vars

\* A health task was made, after a stop_all, while the attribute held no task
\* that runs.
C31_TaskMadeAgain ==
  /\ phase = "run" /\ tasks["mon"].pc = "m_new" /\ shutdownEvent
  /\ \E t \in Callers : tasks[t].pc = "ret" /\ tasks[t].op = "stopAll"

\* C32: once the health task is cancelled, or the shutdown event is set while
\* the task has not finished, the task finishes, whether it was sleeping,
\* probing or inside a restart; and a stop_all that waits for it goes on.
C32_CancelledLoopEnds ==
  /\ (tasks["mon"].cancel \/ (shutdownEvent /\ tasks["mon"].pc \notin {"none", "done"}))
     ~> tasks["mon"].pc \in {"none", "done"}
  /\ \A t \in Callers : tasks[t].pc = "sa_wait" ~> tasks[t].pc \in {"ret", "sd_clean"}

\* A stop_all has returned whose cancellation met the health task inside a
\* restart.
C32_StopAllReturnedAfterRestartCancelled ==
  /\ tasks["mon"].pc = "done" /\ tasks["mon"].via = "restart"
  /\ \E t \in Callers : tasks[t].pc = "ret" /\ tasks[t].op = "stopAll"

\* C33: a cleanup pass escalates in a fixed order.  What a pass has sent to
\* its current entry is a beginning of: SIGTERM to the group, terminate() of
\* the process, SIGKILL to group and process; it leaves an entry it has sent
\* something to through the confirming wait; it sends a signal only to an
\* entry that is alive at that step, so an entry found dead gets none.
C33_EscalationInOrder ==
  /\ [](\A k \in 1..Len(frames) :
          /\ frames[k].sent \in {<<>>, <<"SIGTERM">>, <<"SIGTERM", "terminate">>,
                                   <<"SIGTERM", "terminate", "SIGKILL">>}
          /\ frames[k].pc \in {"check", "clear"} => frames[k].sent = <<>>
          /\ frames[k].pc \in {"sleep1", "sleep2", "wait"} => frames[k].sent # <<>>)
  /\ [][\A k \in 1..Len(frames) :
          (k <= Len(frames') /\ frames'[k].i = frames[k].i
             /\ Len(frames'[k].sent) > Len(frames[k].sent))
          => Alive(procs, frames[k].snap[frames[k].i])]_vars

\* A pass has gone through all three tiers for an entry and confirms its end.
C33_AllTiersApplied ==
  \E k \in 1..Len(frames) :
    /\ frames[k].pc = "wait"
    /\ frames[k].sent = <<"SIGTERM", "terminate", "SIGKILL">>
    /\ ~Alive(procs, frames[k].snap[frames[k].i])

\* C34: an entry leaves the registry only at the clear() that ends a cleanup
\* pass, and then the pass has handled the last entry of its snapshot, the
\* registry holds nothing the snapshot does not hold, and no entry is alive;
\* no step of stop_server, of a reload or of anything else removes an entry.
C34_EntriesLeaveOnlyAfterTermination ==
  [][(\E p \in Elems(registry) : p \notin Elems(registry'))
     => /\ frames # <<>>
        /\ LET top == frames[Len(frames)] IN
           /\ top.pc = "clear" /\ top.i = Len(top.snap)
           /\ Elems(registry) \subseteq Elems(top.snap)
        /\ \A p \in Elems(registry) : ~Alive(procs, p)
        /\ registry' = <<>>]_vars

\* A shutdown has returned whose pass took two entries out of the registry,
\* none of them alive.
C34_TwoEntriesRemoved ==
  /\ phase = "run" /\ frames = <<>> /\ registry = <<>> /\ Cardinality(swept) >= 2
  /\ \A p \in swept : ~Alive(procs, p)
  /\ \E t \in Callers : tasks[t].pc = "ret" /\ tasks[t].op = "shutdown"

\* C35: the exit hook and the signal handlers are registered once in the life
\* of the host process, however many managers get_mcp_manager makes.
C35_RegisteredOnce == host.hooks = 1

\* A second manager was made after a shutdown, and its table was loaded.
C35_SecondManagerInUse == host.managers = 2 /\ globalManager /\ cur > 0 /\ phase = "run"

\* C36: signal_handler does no process operation itself.  While the handler
\* runs (the innermost cleanup pass is one it called) no step sends a signal
\* to a tracked process and none changes the registry.
C36_HandlerOnlyFlags ==
  [][(frames # <<>> /\ frames[Len(frames)].src = "signal")
     => /\ registry' = registry
        /\ Len(frames') >= Len(frames)
             => Len(frames'[Len(frames)].sent) <= Len(frames[Len(frames)].sent)]_vars

\* C37: a start_server that returns True leaves the server "running": when a
\* caller's call returns True, and when the call the health task makes as a
\* restart returns True to the task.
C37_SuccessMeansRunning ==
  [][/\ \A t \in Callers :
          (/\ OneCaller /\ cur' = cur /\ tasks[t].pc # "ret" /\ tasks'[t].pc = "ret"
           /\ tasks'[t].op = "start" /\ tasks'[t].ret = "True")
          => tables'[cur][tasks'[t].name].status = "running"
     /\ LET mon == tasks["mon"] IN
        (/\ mon.pc \in {"m_probe", "s_probe0", "s_sleep", "s_probe"}
         /\ mon.iter = cur /\ Steps("mon")
         /\ <<mon.name, "True">> \in tasks'["mon"].res \ mon.res)
        => tables'[cur][mon.name].status = "running"]_vars

\* C38: a start_server call ends within its bounded number of polls, and when
\* it returns the status of a known, enabled server is "running" or "failed",
\* never "starting", also when Popen raised.
C38_StartEndsSettled ==
  /\ [](\A t \in Tasks : tasks[t].pc \in {"s_sleep", "s_probe"} => tasks[t].i < MaxPolls)
  /\ [][\A t \in Callers :
          (/\ cur' = cur /\ tasks[t].pc # "ret" /\ tasks'[t].pc = "ret"
           /\ tasks'[t].op = "start" /\ Known(cur, tasks'[t].name)
           /\ tables[cur][tasks'[t].name].enabled)
          => tables'[cur][tasks'[t].name].status \in {"running", "failed"}]_vars

\* C39: a process comes to life only in the Popen of a start_server, and at
\* that step the server is known, enabled and has its script, the handle it
\* holds is none or of a process that is not alive, and the probe that the
\* call has just awaited did not answer.
C39_SpawnOnlyWhenDue ==
  [][\A p \in Pids :
       (procs[p].st = "unborn" /\ procs'[p].st = "alive")
       => \E t \in Tasks :
            /\ tasks[t].pc = "s_probe0" /\ tasks'[t].pc = "s_spawned"
            /\ ~tasks'[t].answer
            /\ LET n == tasks[t].name
                   g == tasks[t].gen IN
               /\ Known(g, n) /\ tables[g][n].enabled
               /\ tables[g][n].script_path /\ ScriptExists(n)
               /\ tables'[g][n].process = p
               /\ tables[g][n].process = NoProc \/ ~Alive(procs, tables[g][n].process)]_vars

\* C40: start_all_enabled replaces the table and terminates nothing.  The step
\* that makes the call leaves every process and the registry as they were and
\* every entry of the new table is "stopped" with no handle; no later step of
\* the call ends a live process or takes an entry from the registry; and when
\* the pre-spawn probe of one of its servers is answered, that start returns
\* True with status "running", the handle left alone, no process spawned and
\* nothing appended to the registry.
C40_ReloadKeepsProcesses ==
  [][\A t \in Callers :
       /\ (tasks[t].pc = "idle" /\ tasks'[t].op = "startAll" /\ cur' = cur + 1)
          => /\ procs' = procs /\ registry' = registry
             /\ \A n \in ServerNames :
                  /\ tables'[cur'][n].status = "stopped"
                  /\ tables'[cur'][n].process = NoProc
       /\ (tasks[t].op = "startAll" /\ Steps(t)
           /\ tasks[t].pc \in {"s_probe0", "s_spawned", "s_sleep", "s_probe"})
          => /\ \A p \in Pids : Alive(procs, p) => Alive(procs', p)
             /\ Len(registry') >= Len(registry)
             /\ SubSeq(registry', 1, Len(registry)) = registry
       /\ (tasks[t].op = "startAll" /\ Steps(t) /\ tasks[t].pc = "s_probe0"
           /\ <<tasks[t].name, "True">> \in tasks'[t].res \ tasks[t].res)
          => /\ tables'[tasks[t].gen][tasks[t].name].status = "running"
             /\ tables'[tasks[t].gen][tasks[t].name].process
                  = tables[tasks[t].gen][tasks[t].name].process
             /\ \A p \in Pids : procs[p].st = "unborn" => procs'[p].st = "unborn"
             /\ registry' = registry]_vars

\* A second start_all_enabled has returned: the process the first one spawned
\* for a server is alive and in the registry, no entry of the table holds it,
\* and the server is "running" with no handle on the answer of its port.
C40_RunningWithoutHandle ==
  \E t \in Callers, n \in ServerNames, p \in Pids :
    /\ tasks[t].pc = "ret" /\ tasks[t].op = "startAll" /\ cur = 2
    /\ <<n, "True">> \in tasks[t].res
    /\ tables[cur][n].status = "running" /\ tables[cur][n].process = NoProc
    /\ Alive(procs, p) /\ procs[p].name = n /\ p \in Elems(registry)
    /\ \A m \in ServerNames : tables[cur][m].process # p

====
